---- MODULE Spec2Model ----
(***************************************************************************)
(* The entity version lookup engine of the datahub (Lookup.Details,        *)
(* Lookup.loadDetails, Lookup.loadChanges) over a store with a locator     *)
(* index and a change log, and the combined authorizer of the web layer    *)
(* (NewAuthorizer).                                                        *)
(***************************************************************************)
EXTENDS Integers, Sequences, FiniteSets, TLC

\* Bounds of the model.
MaxDatasetID == 2
MaxEntries == 3
MaxConcEntries == 2

VARIABLES
    \* the store
    locator,            \* Entity Locator Index of the entity: dataset id -> values, ascending version
    changelog,          \* Entity Change Log of the entity: dataset id -> values, ascending sequence
    deleted,            \* dataset id -> deleted flag (live state of the store)
    named,              \* dataset id -> whether the id <-> name mapping exists (live state)
    \* one Details call
    pc,                 \* position of the call
    argId, argNames,    \* its arguments
    deletedAtStart,     \* history: the deleted flags when the call started
    txn,                \* the read transaction: "none", "open", "discarded", "committed"
    snap,               \* the snapshot the transaction reads
    iters,              \* iterators that are open
    scope,
    pos,                \* position of entityLocatorIterator
    prevValueBytes, previousDatasetID, partials,
    todo,               \* keys of partials the range loop has not visited yet
    internalDatasetID, n, entity,
    chPos,              \* position of entityChangesIterator
    changes,            \* loadChanges' result
    result,
    ret,                \* what Details returned
    \* one request through the combined authorizer
    apc, authMiddleware, adminSet, aclAccepts, opaAccepts,
    handlerRuns, err1, err2, response

storeVars == <<locator, changelog, deleted, named>>
callVars == <<pc, argId, argNames, deletedAtStart, txn, snap, iters, scope, pos, prevValueBytes,
              previousDatasetID, partials, todo, internalDatasetID, n, entity, chPos,
              changes, result, ret>>
authVars == <<apc, authMiddleware, adminSet, aclAccepts, opaAccepts, handlerRuns, err1,
              err2, response>>
vars == <<storeVars, callVars, authVars>>

----------------------------------------------------------------------------
\* Values and identifiers.

DatasetIDs == 0..MaxDatasetID

NameOf(d) == <<"name", d>>
UnknownName == <<"name", -1>>

\* The dataset-name filters a caller passes: none, names of datasets, a name that
\* denotes no dataset.
Filters == {{NameOf(d) : d \in S} : S \in SUBSET DatasetIDs} \cup {{UnknownName}}

\* fmt.Sprintf("%v", internalDatasetID)
Sprintf(d) == <<"id", d>>

EntityIDs == {"no-namespace", "ex:never-assigned", "ex:3"}

Nil == [nil |-> TRUE]
Absent == [absent |-> TRUE]
Placeholder == [unexpected |-> "dataset name not found"]

\* A stored snapshot document: its bytes are well formed JSON or not.
Value(d, i, ok) == [recorded |-> <<d, i>>, ok |-> ok]

\* json.Unmarshal(bytes, &entity)
Unmarshal(bytes) ==
    IF bytes.ok THEN [err |-> FALSE, entity |-> [recorded |-> bytes.recorded]]
                ELSE [err |-> TRUE, entity |-> Nil]

EmptyMap == [k \in {} |-> Nil]
Put(m, k, v) == [x \in DOMAIN m \cup {k} |-> IF x = k THEN v ELSE m[x]]

RECURSIVE KeysFrom(_, _)
\* The keys of the entity's locator prefix in key order: dataset id, then version.
KeysFrom(loc, d) ==
    IF d > MaxDatasetID THEN <<>>
    ELSE [i \in 1..Len(loc[d]) |-> <<d, i>>] \o KeysFrom(loc, d + 1)

LocatorKeys(loc) == KeysFrom(loc, 0)

RECURSIVE SumFrom(_, _)
SumFrom(f, d) == IF d > MaxDatasetID THEN 0 ELSE Len(f[d]) + SumFrom(f, d + 1)
Entries(loc) == SumFrom(loc, 0)

----------------------------------------------------------------------------
\* The collaborators of the lookup engine.

\* Lookup.asCURIE
asCURIE(id) == [err |-> id = "no-namespace"]

\* Lookup.InternalIDForCURIE
InternalIDForCURIE(id) == [err |-> id = "ex:never-assigned"]

\* BadgerStore.LookupDatasetIDs: names not found are dropped.
LookupDatasetIDs(datasetNames) ==
    {d \in DatasetIDs : named[d] /\ NameOf(d) \in datasetNames}

\* BadgerStore.IsDatasetDeleted
IsDatasetDeleted(d) == deleted[d]

\* BadgerStore.LookupDatasetName
LookupDatasetName(d) == [n |-> NameOf(d), ok |-> named[d]]

\* A change log iterator that reads the store as it is now.
LiveChangelog == changelog

\* What the iterators of the read transaction see.
TxnLocator == snap.locator
TxnChanges == snap.changelog

----------------------------------------------------------------------------
\* Lookup.Details, Lookup.loadDetails, Lookup.loadChanges

NoSnap == [locator |-> [d \in DatasetIDs |-> <<>>], changelog |-> [d \in DatasetIDs |-> <<>>]]
NoPartials == [d \in DatasetIDs |-> Absent]
\* What Details returns: details is <<>> for a nil map and <<m>> for the map m.
Return(details, err) == [details |-> details, err |-> err]
NoReturn == Return(<<>>, "pending")

\* len(scope) == 0, or some id of scope equals the dataset id
Included(sc, d) == sc = {} \/ d \in sc

\* The skip test without the deleted flag.
SkippedIgnoringDeleted(datasetDeleted, datasetIncluded) == ~datasetIncluded

\* if datasetDeleted || !datasetIncluded { continue }
Skipped(datasetDeleted, datasetIncluded) == datasetDeleted \/ ~datasetIncluded

\* if previousDatasetID != 0 { if currentDatasetID != previousDatasetID { partials[previousDatasetID] = prevValueBytes } }
CommitOnChange(p, prevID, curID, bytes) ==
    IF prevID # 0 /\ curID # prevID THEN [p EXCEPT ![prevID] = bytes] ELSE p

\* if previousDatasetID != 0 { partials[previousDatasetID] = prevValueBytes }
CommitPending(p, prevID, bytes) ==
    IF prevID # 0 THEN [p EXCEPT ![prevID] = bytes] ELSE p

\* The pending value taken from the first entry of a dataset only.
ValueCopyKeepsFirst(prevBytes, prevID, curID, itemValue) ==
    IF prevID = curID /\ prevBytes # Nil THEN prevBytes ELSE itemValue

\* previousDatasetID = currentDatasetID; prevValueBytes, _ = item.ValueCopy(nil)
ValueCopy(prevBytes, prevID, curID, itemValue) == itemValue

\* iterator.ValidForPrefix after the position's Seek/Rewind/Next
ValidForPrefix(position, keys) == position <= Len(keys)

\* A return that leaves the iterator open.
CloseForgotten(open, it) == open

\* defer iterator.Close()
Close(open, it) == open \ {it}

CallLocals == <<scope, pos, prevValueBytes, previousDatasetID, partials, todo,
                internalDatasetID, n, entity, chPos, changes, result>>

Details(id, datasetNames) ==
    /\ pc = "idle"
    /\ argId' = id
    /\ argNames' = datasetNames
    /\ deletedAtStart' = deleted
    /\ IF asCURIE(id).err
         THEN /\ ret' = Return(<<>>, "InvalidIdentifier")
              /\ pc' = "done"
              /\ UNCHANGED <<txn, snap>>
         ELSE /\ txn' = "open"
              /\ snap' = [locator |-> locator, changelog |-> changelog]
              /\ pc' = "internalID"
              /\ ret' = ret
    /\ UNCHANGED <<storeVars, authVars, iters, CallLocals>>

\* The resolution error dropped.
ResolveInternalIDIgnoringError ==
    /\ pc = "internalID"
    /\ pc' = "scope"
    /\ UNCHANGED <<storeVars, authVars, argId, argNames, deletedAtStart, txn, snap, iters,
                   CallLocals, ret>>

ResolveInternalID ==
    /\ pc = "internalID"
    /\ IF InternalIDForCURIE(argId).err
         THEN /\ ret' = Return(<<>>, "NotFound")
              /\ pc' = "discard"
         ELSE /\ pc' = "scope"
              /\ ret' = ret
    /\ UNCHANGED <<storeVars, authVars, argId, argNames, deletedAtStart, txn, snap, iters, CallLocals>>

ResolveScope ==
    /\ pc = "scope"
    /\ scope' = LookupDatasetIDs(argNames)
    /\ pc' = "seek"
    /\ UNCHANGED <<storeVars, authVars, argId, argNames, deletedAtStart, txn, snap, iters, pos,
                   prevValueBytes, previousDatasetID, partials, todo, internalDatasetID, n,
                   entity, chPos, changes, result, ret>>

loadDetails ==
    /\ pc = "seek"
    /\ result' = EmptyMap
    /\ iters' = iters \cup {"entityLocatorIterator"}
    /\ prevValueBytes' = Nil
    /\ previousDatasetID' = 0
    /\ partials' = NoPartials
    /\ pos' = 1
    /\ pc' = "scan"
    /\ UNCHANGED <<storeVars, authVars, argId, argNames, deletedAtStart, txn, snap, scope, todo,
                   internalDatasetID, n, entity, chPos, changes, ret>>

ScanEntry ==
    /\ pc = "scan"
    /\ ValidForPrefix(pos, LocatorKeys(TxnLocator))
    /\ LET key == LocatorKeys(TxnLocator)[pos]
           currentDatasetID == key[1]
           datasetDeleted == IsDatasetDeleted(currentDatasetID)
           datasetIncluded == Included(scope, currentDatasetID)
       IN  IF Skipped(datasetDeleted, datasetIncluded)
             THEN UNCHANGED <<partials, previousDatasetID, prevValueBytes>>
             ELSE /\ partials' = CommitOnChange(partials, previousDatasetID,
                                                currentDatasetID, prevValueBytes)
                  /\ previousDatasetID' = currentDatasetID
                  /\ prevValueBytes' = ValueCopy(prevValueBytes, previousDatasetID, currentDatasetID,
                                               TxnLocator[currentDatasetID][key[2]])
    /\ pos' = pos + 1
    /\ UNCHANGED <<storeVars, authVars, pc, argId, argNames, deletedAtStart, txn, snap, iters, scope,
                   todo, internalDatasetID, n, entity, chPos, changes, result, ret>>

ScanEnd ==
    /\ pc = "scan"
    /\ ~ValidForPrefix(pos, LocatorKeys(TxnLocator))
    /\ partials' = CommitPending(partials, previousDatasetID, prevValueBytes)
    /\ todo' = {d \in DatasetIDs : partials'[d] # Absent}
    /\ pc' = "range"
    /\ UNCHANGED <<storeVars, authVars, argId, argNames, deletedAtStart, txn, snap, iters, scope, pos,
                   prevValueBytes, previousDatasetID, internalDatasetID, n, entity, chPos,
                   changes, result, ret>>

\* One turn of "for internalDatasetID, entityBytes := range partials", up to the call
\* of loadChanges and the opening of its iterator; the map is visited in any order.
RangePartials(d) ==
    /\ pc = "range"
    /\ d \in todo
    /\ todo' = todo \ {d}
    /\ LET name == LookupDatasetName(d)
           u == Unmarshal(partials[d])
       IN  IF ~name.ok
             THEN /\ result' = Put(result, Sprintf(d), Placeholder)
                  /\ UNCHANGED <<pc, iters, internalDatasetID, n, entity, chPos, changes, ret>>
             ELSE IF u.err
               THEN /\ ret' = Return(<<>>, "Corrupt")
                    /\ pc' = "closeLocator"
                    /\ UNCHANGED <<iters, internalDatasetID, n, entity, chPos, changes, result>>
               ELSE /\ internalDatasetID' = d
                    /\ n' = name.n
                    /\ entity' = u.entity
                    /\ iters' = iters \cup {"entityChangesIterator"}
                    /\ changes' = <<>>
                    /\ chPos' = 1
                    /\ pc' = "changes"
                    /\ UNCHANGED <<result, ret>>
    /\ UNCHANGED <<storeVars, authVars, argId, argNames, deletedAtStart, txn, snap, scope, pos,
                   prevValueBytes, previousDatasetID, partials>>

\* A change log scan that steps over an entry it cannot decode.
ChangesEntrySkippingCorrupt ==
    /\ pc = "changes"
    /\ ValidForPrefix(chPos, TxnChanges[internalDatasetID])
    /\ LET u == Unmarshal(TxnChanges[internalDatasetID][chPos])
       IN  changes' = IF u.err THEN changes ELSE Append(changes, u.entity)
    /\ chPos' = chPos + 1
    /\ UNCHANGED <<storeVars, authVars, pc, argId, argNames, deletedAtStart, txn, snap, iters,
                   scope, pos, prevValueBytes, previousDatasetID, partials, todo,
                   internalDatasetID, n, entity, result, ret>>

ChangesEntry ==
    /\ pc = "changes"
    /\ ValidForPrefix(chPos, TxnChanges[internalDatasetID])
    /\ LET u == Unmarshal(TxnChanges[internalDatasetID][chPos])
       IN  IF u.err
             THEN /\ iters' = Close(iters, "entityChangesIterator")
                  /\ ret' = Return(<<>>, "Corrupt")
                  /\ pc' = "closeLocator"
                  /\ UNCHANGED <<changes, chPos>>
             ELSE /\ changes' = Append(changes, u.entity)
                  /\ chPos' = chPos + 1
                  /\ UNCHANGED <<iters, ret, pc>>
    /\ UNCHANGED <<storeVars, authVars, argId, argNames, deletedAtStart, txn, snap, scope, pos,
                   prevValueBytes, previousDatasetID, partials, todo, internalDatasetID, n,
                   entity, result>>

ChangesEnd ==
    /\ pc = "changes"
    /\ ~ValidForPrefix(chPos, TxnChanges[internalDatasetID])
    /\ iters' = Close(iters, "entityChangesIterator")
    /\ result' = Put(result, n, [latest |-> entity, changes |-> changes])
    /\ pc' = "range"
    /\ UNCHANGED <<storeVars, authVars, argId, argNames, deletedAtStart, txn, snap, scope, pos,
                   prevValueBytes, previousDatasetID, partials, todo, internalDatasetID, n,
                   entity, chPos, changes, ret>>

RangeEnd ==
    /\ pc = "range"
    /\ todo = {}
    /\ ret' = Return(<<result>>, "nil")
    /\ pc' = "closeLocator"
    /\ UNCHANGED <<storeVars, authVars, argId, argNames, deletedAtStart, txn, snap, iters, CallLocals>>

\* loadDetails returns: defer entityLocatorIterator.Close()
CloseLocator ==
    /\ pc = "closeLocator"
    /\ iters' = Close(iters, "entityLocatorIterator")
    /\ pc' = "discard"
    /\ UNCHANGED <<storeVars, authVars, argId, argNames, deletedAtStart, txn, snap, CallLocals, ret>>

\* Details returns: defer rtxn.Discard()
Discard ==
    /\ pc = "discard"
    /\ txn' = "discarded"
    /\ pc' = "done"
    /\ UNCHANGED <<storeVars, authVars, argId, argNames, deletedAtStart, snap, iters, CallLocals, ret>>

CallStep ==
    \/ \E id \in EntityIDs, datasetNames \in Filters : Details(id, datasetNames)
    \/ ResolveInternalID
    \/ ResolveScope
    \/ loadDetails
    \/ ScanEntry
    \/ ScanEnd
    \/ \E d \in DatasetIDs : RangePartials(d)
    \/ ChangesEntry
    \/ ChangesEnd
    \/ RangeEnd
    \/ CloseLocator
    \/ Discard

----------------------------------------------------------------------------
\* The states of the store and of the call before anything runs.

\* A store the write path has filled: the highest locator entry of a pair is the same
\* document as the final change log entry of the pair. At most one stored value is
\* corrupt and at most one dataset id has lost its name; when both happen, they happen
\* to the same dataset.
Faults ==
    {<<"none", 0, 0>>}
      \cup {<<"locator", d, i>> : d \in DatasetIDs, i \in 1..MaxEntries}
      \cup {<<"changelog", d, i>> : d \in DatasetIDs, i \in 1..MaxEntries}

FaultOK(count, f) ==
    \/ f[1] = "none"
    \/ f[1] = "locator" /\ f[3] < count[f[2]]
    \/ f[1] = "changelog" /\ f[3] <= count[f[2]]

StoreWith(count, f) ==
    /\ locator = [d \in DatasetIDs |-> [i \in 1..count[d] |->
            Value(d, i, ~(\/ f = <<"locator", d, i>>
                          \/ (f = <<"changelog", d, i>> /\ i = count[d])))]]
    /\ changelog = [d \in DatasetIDs |-> [i \in 1..count[d] |->
            Value(d, i, f # <<"changelog", d, i>>)]]

InitCall ==
    /\ pc = "idle"
    /\ argId = "ex:3"
    /\ argNames = {}
    /\ deletedAtStart = deleted
    /\ txn = "none"
    /\ snap = NoSnap
    /\ iters = {}
    /\ scope = {}
    /\ pos = 1
    /\ prevValueBytes = Nil
    /\ previousDatasetID = 0
    /\ partials = NoPartials
    /\ todo = {}
    /\ internalDatasetID = 0
    /\ n = Nil
    /\ entity = Nil
    /\ chPos = 1
    /\ changes = <<>>
    /\ result = EmptyMap
    /\ ret = NoReturn

InitAuthIdle ==
    /\ apc = "off"
    /\ authMiddleware = "noop"
    /\ adminSet = FALSE
    /\ aclAccepts = FALSE
    /\ opaAccepts = FALSE
    /\ handlerRuns = 0
    /\ err1 = "nil"
    /\ err2 = "nil"
    /\ response = "none"

InitStore(maxEntries) ==
    \E count \in [DatasetIDs -> 0..maxEntries] :
        \E f \in Faults :
            /\ FaultOK(count, f)
            /\ StoreWith(count, f)
            /\ Entries(locator) <= maxEntries
            /\ \E S \in {{}} \cup {{d} : d \in DatasetIDs} :
                    /\ (f[1] # "none" /\ S # {}) => S = {f[2]}
                    /\ named = [d \in DatasetIDs |-> d \notin S]

Init ==
    /\ InitStore(MaxEntries)
    /\ deleted \in [DatasetIDs -> BOOLEAN]
    /\ InitCall
    /\ InitAuthIdle

Next == CallStep

Spec == Init /\ [][Next]_vars

----------------------------------------------------------------------------
\* Writers and the garbage collector, running while a Details call runs.

\* The write path commits a new version of the entity in dataset d: one entry
\* appended to the locator index and the same document to the change log. The store
\* holds at most MaxConcEntries versions; what happens after the call has returned is
\* not followed.
Write(d) ==
    /\ pc # "done"
    /\ Entries(locator) < MaxConcEntries
    /\ locator' = [locator EXCEPT ![d] = Append(@, Value(d, Len(@) + 1, TRUE))]
    /\ changelog' = [changelog EXCEPT ![d] = Append(@, Value(d, Len(@) + 1, TRUE))]
    /\ UNCHANGED <<deleted, named, callVars, authVars>>

\* The garbage collector flips the deleted flag of a dataset (of one dataset in a run).
MarkDeleted(d) ==
    /\ pc # "done"
    /\ \A e \in DatasetIDs : ~deleted[e]
    /\ deleted' = [deleted EXCEPT ![d] = TRUE]
    /\ UNCHANGED <<locator, changelog, named, callVars, authVars>>

\* The name mapping of a dataset changes: its id no longer resolves to its name (of
\* one dataset in a run).
UnregisterName(d) ==
    /\ pc # "done"
    /\ \A e \in DatasetIDs : named[e]
    /\ named' = [named EXCEPT ![d] = FALSE]
    /\ UNCHANGED <<locator, changelog, deleted, callVars, authVars>>

InitEmptyStore ==
    /\ locator = [d \in DatasetIDs |-> <<>>]
    /\ changelog = [d \in DatasetIDs |-> <<>>]
    /\ deleted = [d \in DatasetIDs |-> FALSE]
    /\ named = [d \in DatasetIDs |-> TRUE]

InitConc ==
    /\ InitEmptyStore
    /\ InitCall
    /\ InitAuthIdle

NextConc ==
    \/ CallStep
    \/ \E d \in DatasetIDs : Write(d)
    \/ \E d \in DatasetIDs : MarkDeleted(d)
    \/ \E d \in DatasetIDs : UnregisterName(d)

SpecConc == InitConc /\ [][NextConc]_vars

----------------------------------------------------------------------------
\* NewAuthorizer and one request through the authorizer it builds.

HandlerResults == {"nil", "400", "500"}

\* middlewares.LocalAuthorizer / middlewares.OpaAuthorizer wrapped around next: a
\* rejected request is answered with an error and next is not called; an accepted
\* one gets what next returns.
Authorize(accepts, nextResult) == IF accepts THEN nextResult ELSE "403"

NewAuthorizer ==
    /\ apc = "new"
    /\ apc' = CASE authMiddleware \in {"local", "opa"} /\ adminSet -> "combined"
                [] authMiddleware \in {"local", "opa"} /\ ~adminSet -> "panic"
                [] OTHER -> "noop"
    /\ UNCHANGED <<storeVars, callVars, authMiddleware, adminSet, aclAccepts, opaAccepts,
                   handlerRuns, err1, err2, response>>

\* A request arrives at the combined authorizer; each authorizer would accept it or not.
Request(acl, opa) ==
    /\ apc \in {"combined", "noop"}
    /\ aclAccepts' = acl
    /\ opaAccepts' = opa
    /\ apc' = IF apc = "combined" THEN "acl" ELSE "next"
    /\ UNCHANGED <<storeVars, callVars, authMiddleware, adminSet, handlerRuns, err1, err2,
                   response>>

\* err1 := acl(log, scopes...)(next)(c)
ApplyAcl(nextResult) ==
    /\ apc = "acl"
    /\ err1' = Authorize(aclAccepts, nextResult)
    /\ handlerRuns' = IF aclAccepts THEN handlerRuns + 1 ELSE handlerRuns
    /\ apc' = "opa"
    /\ UNCHANGED <<storeVars, callVars, authMiddleware, adminSet, aclAccepts, opaAccepts,
                   err2, response>>

\* err2 := opa(log, scopes...)(next)(c)
ApplyOpa(nextResult) ==
    /\ apc = "opa"
    /\ err2' = Authorize(opaAccepts, nextResult)
    /\ handlerRuns' = IF opaAccepts THEN handlerRuns + 1 ELSE handlerRuns
    /\ apc' = "respond"
    /\ UNCHANGED <<storeVars, callVars, authMiddleware, adminSet, aclAccepts, opaAccepts,
                   err1, response>>

\* if err1 != nil && err2 != nil { return 403 }; return nil
Respond ==
    /\ apc = "respond"
    /\ response' = IF err1 # "nil" /\ err2 # "nil" THEN "403" ELSE "nil"
    /\ apc' = "done"
    /\ UNCHANGED <<storeVars, callVars, authMiddleware, adminSet, aclAccepts, opaAccepts,
                   handlerRuns, err1, err2>>

\* middlewares.NoOpAuthorizer: the request goes to next.
NoOpAuthorizer(nextResult) ==
    /\ apc = "next"
    /\ handlerRuns' = handlerRuns + 1
    /\ response' = nextResult
    /\ apc' = "noopdone"
    /\ UNCHANGED <<storeVars, callVars, authMiddleware, adminSet, aclAccepts, opaAccepts,
                   err1, err2>>

InitAuth ==
    /\ InitEmptyStore
    /\ InitCall
    /\ apc = "new"
    /\ authMiddleware \in {"local", "opa", "noop", ""}
    /\ adminSet \in BOOLEAN
    /\ aclAccepts = FALSE
    /\ opaAccepts = FALSE
    /\ handlerRuns = 0
    /\ err1 = "nil"
    /\ err2 = "nil"
    /\ response = "none"

NextAuth ==
    \/ NewAuthorizer
    \/ \E acl \in BOOLEAN, opa \in BOOLEAN : Request(acl, opa)
    \/ \E r \in HandlerResults : ApplyAcl(r)
    \/ \E r \in HandlerResults : ApplyOpa(r)
    \/ Respond
    \/ \E r \in HandlerResults : NoOpAuthorizer(r)

SpecAuth == InitAuth /\ [][NextAuth]_vars

----------------------------------------------------------------------------
\* The properties.

IsEntry(v) == "latest" \in DOMAIN v
Returned == pc = "done" /\ ret.err = "nil"
Map == ret.details[1]
Last(seq) == seq[Len(seq)]
HasCorrupt(seq) == \E i \in 1..Len(seq) : ~seq[i].ok

\* C1: in every {latest, changes} entry that Details returns, whatever the scope and
\* the number of versions, latest equals the final element of changes.
LatestIsLastChange ==
    Returned =>
        \A k \in DOMAIN Map :
            IsEntry(Map[k]) =>
                /\ Len(Map[k].changes) > 0
                /\ Map[k].latest = Last(Map[k].changes)

\* C1's case: a call with a dataset filter returned an entry of a dataset with
\* several versions.
LatestIsLastChangeWitness ==
    /\ Returned
    /\ argNames # {}
    /\ \E k \in DOMAIN Map : IsEntry(Map[k]) /\ Len(Map[k].changes) >= 2

\* C2: for a non-empty filter every key of the result is a name of the filter that
\* denotes a non-deleted dataset in which the entity has a locator entry; so when no
\* name of the filter resolves, the result has no keys.
FilterKeysWithinFilter ==
    (Returned /\ argNames # {}) =>
        DOMAIN Map \subseteq {NameOf(d) : d \in {e \in DatasetIDs :
                                  /\ named[e]
                                  /\ NameOf(e) \in argNames
                                  /\ ~deleted[e]
                                  /\ Len(locator[e]) > 0}}

\* C3: a dataset whose deleted flag was set before the call started has no key in the
\* result; an entity whose entries all lie in such datasets gets no keys; the latest
\* of a dataset is a document of that dataset.
DeletedOmitted ==
    Returned =>
        /\ \A d \in DatasetIDs :
              deletedAtStart[d] => NameOf(d) \notin DOMAIN Map /\ Sprintf(d) \notin DOMAIN Map
        /\ (\A d \in DatasetIDs : Len(snap.locator[d]) > 0 => deletedAtStart[d])
              => DOMAIN Map = {}
        /\ \A d \in DatasetIDs :
              NameOf(d) \in DOMAIN Map => Map[NameOf(d)].latest.recorded[1] = d

\* C3's case: the filter names a dataset deleted before the call, in which the entity
\* has entries, and the call returned another dataset.
DeletedOmittedWitness ==
    /\ Returned
    /\ DOMAIN Map # {}
    /\ \E d \in DatasetIDs :
          deletedAtStart[d] /\ Len(snap.locator[d]) > 0 /\ NameOf(d) \in argNames

\* C4: the result holds, for each dataset, the change log as it was when the read
\* transaction was opened and a latest of the locator index as it was then: nothing
\* committed afterwards appears.
SnapshotIsolation ==
    Returned =>
        \A d \in DatasetIDs :
            NameOf(d) \in DOMAIN Map =>
                LET e == Map[NameOf(d)]
                IN  /\ Len(e.changes) = Len(snap.changelog[d])
                    /\ \A i \in 1..Len(e.changes) :
                          e.changes[i] = Unmarshal(snap.changelog[d][i]).entity
                    /\ \E i \in 1..Len(snap.locator[d]) :
                          e.latest = Unmarshal(snap.locator[d][i]).entity

\* C4's case: a dataset of the result was written to after the transaction was opened.
SnapshotIsolationWitness ==
    /\ Returned
    /\ \E d \in DatasetIDs :
          /\ NameOf(d) \in DOMAIN Map
          /\ Len(changelog[d]) > Len(snap.changelog[d])

\* C5: the deleted check and the name lookups see the state at transaction-open time,
\* also when a flag or a name mapping changes while the call runs: a dataset of the
\* result has as latest the highest locator entry of the snapshot, which is the last
\* element of its changes, never an entry of a partly skipped group.
FlagsReadAtOpen ==
    Returned =>
        \A d \in DatasetIDs :
            NameOf(d) \in DOMAIN Map =>
                /\ Map[NameOf(d)].latest = Unmarshal(Last(snap.locator[d])).entity
                /\ Map[NameOf(d)].latest = Last(Map[NameOf(d)].changes)

\* C6: Details on an identifier that cannot be compacted, or that has no internal id,
\* opens no iterator and returns an error and no result map.
FailFast ==
    (pc # "idle" /\ argId \in {"no-namespace", "ex:never-assigned"}) =>
        /\ iters = {}
        /\ pc = "done" =>
              /\ ret.details = <<>>
              /\ ret.err = IF argId = "no-namespace" THEN "InvalidIdentifier" ELSE "NotFound"

\* C6's case: the call on a curie without an internal id has returned.
FailFastWitness ==
    pc = "done" /\ argId = "ex:never-assigned" /\ ret.err = "NotFound"

InScope(d) == argNames = {} \/ (named[d] /\ NameOf(d) \in argNames)

\* C7 as stated, for the datasets with an id other than 0: a corrupt locator or change
\* log entry of the entity in a non-deleted, in-scope dataset makes Details return an
\* error and no result map.
CorruptNeverSkipped ==
    (pc = "done" /\ argId = "ex:3") =>
        ((\E d \in DatasetIDs \ {0} :
              /\ ~deleted[d]
              /\ InScope(d)
              /\ (HasCorrupt(locator[d]) \/ HasCorrupt(changelog[d])))
          => (ret.err = "Corrupt" /\ ret.details = <<>>))

\* C7 as amended: Details fails, with no result map, exactly when the value the scan
\* committed for a dataset whose name resolves, or an entry of that dataset's change
\* log, does not decode.
DecodedCorruptFails ==
    (pc = "done" /\ argId = "ex:3") =>
        /\ ret.err = "Corrupt" <=>
              \E d \in DatasetIDs :
                  /\ partials[d] # Absent
                  /\ named[d]
                  /\ (~partials[d].ok \/ HasCorrupt(snap.changelog[d]))
        /\ ret.err # "nil" => ret.details = <<>>

\* C7's case: the call failed on a change log entry that is not the latest one.
DecodedCorruptFailsWitness ==
    /\ pc = "done"
    /\ ret.err = "Corrupt"
    /\ \E d \in DatasetIDs : \E i \in 1..(Len(snap.changelog[d]) - 1) : ~snap.changelog[d][i].ok

\* C8: the transaction is never committed, an iterator is open only while the
\* transaction is, and when Details has returned every iterator is closed and the
\* transaction it opened is discarded.
ResourcesReleased ==
    /\ txn \in {"none", "open", "discarded"}
    /\ iters # {} => txn = "open"
    /\ pc = "done" =>
          /\ iters = {}
          /\ txn = IF argId = "no-namespace" THEN "none" ELSE "discarded"

\* C8's case: Details returned from a decode error inside a change log scan that had
\* already collected an entry.
ResourcesReleasedWitness ==
    /\ pc = "done"
    /\ ret.err = "Corrupt"
    /\ Len(changes) > 0
    /\ chPos <= Len(snap.changelog[internalDatasetID])
    /\ ~snap.changelog[internalDatasetID][chPos].ok

\* C9: when the locator scan has ended, the accumulator holds, for every dataset id
\* that is not deleted, is included by the scope and has an entry, the highest
\* version entry, and nothing for any other id.
ScanCommitsEligible ==
    pc \in {"range", "changes"} =>
        \A d \in DatasetIDs :
            partials[d] = IF ~deleted[d] /\ Included(scope, d) /\ Len(snap.locator[d]) > 0
                            THEN Last(snap.locator[d])
                            ELSE Absent

\* C10: the combined authorizer runs the handler exactly once and does not answer
\* 403 when one of the two authorizers accepts, and answers 403 without running the
\* handler exactly when both reject.
CombinedAuthorizer ==
    apc = "done" =>
        /\ (aclAccepts \/ opaAccepts) => (handlerRuns = 1 /\ response # "403")
        /\ (~aclAccepts /\ ~opaAccepts) => (handlerRuns = 0 /\ response = "403")

====
